---------------------------- MODULE Spec2Model ----------------------------
(***************************************************************************)
(* Model of the interactive branch switcher (src/switch.ts): the branch    *)
(* catalog built by getAllBranches, the checkout resolved by               *)
(* switchToBranch, the upstream discovery of rebaseBranch and the          *)
(* sequential pipeline of main.                                            *)
(*                                                                         *)
(* Text is modelled as a sequence of tokens: a branch name such as         *)
(* origin/dev is <<"origin/", "dev">>, a listing line "* main" is          *)
(* <<"* ", "main">>, and a command line is the concatenation of its        *)
(* template's pieces.  String operations of the source (trim, startsWith,  *)
(* replace, includes) act on these token sequences.                        *)
(***************************************************************************)
EXTENDS Integers, Sequences, FiniteSets, TLC

(* ------------------------------ bounds -------------------------------- *)

\* most local branches in the repository at start
MaxLocal == 2

\* most remote-tracking branches in the repository
MaxRemote == 2

\* most "origin/" segments a branch's own name may begin with
MaxPrefix == 1

(* ------------------------------ tokens -------------------------------- *)

Origin == "origin/"

Star == "* "

Indent == "  "

Arrow == " -> "

RefsRemotesOrigin == "refs/remotes/origin/"

\* plain branch-name segments
Atoms == {"dev", "main", "master"}

\* segments that may carry "origin/" in front of them in a branch's own name
PrefixAtoms == {"dev"}

\* the order git lists refs in (byte order of the names)
TokRank(t) ==
  CASE t = "HEAD" -> 0
    [] t = "Main" -> 1
    [] t = "dev" -> 2
    [] t = "feature/" -> 3
    [] t = "main" -> 4
    [] t = "master" -> 5
    [] t = Origin -> 6
    [] OTHER -> 7

RECURSIVE NameLess(_, _)
NameLess(a, b) ==
  IF a = <<>> THEN b # <<>>
  ELSE IF b = <<>> THEN FALSE
  ELSE IF Head(a) # Head(b) THEN TokRank(Head(a)) < TokRank(Head(b))
  ELSE NameLess(Tail(a), Tail(b))

RECURSIVE SortedSeq(_)
SortedSeq(S) ==
  IF S = {} THEN <<>>
  ELSE LET m == CHOOSE x \in S : \A y \in S \ {x} : NameLess(x, y)
       IN  <<m>> \o SortedSeq(S \ {m})

Range(s) == {s[i] : i \in 1..Len(s)}

RECURSIVE Prefixed(_, _)
Prefixed(n, name) == IF n = 0 THEN name ELSE <<Origin>> \o Prefixed(n - 1, name)

\* the branch names of the model
Names ==
  {<<a>> : a \in Atoms}
    \cup {Prefixed(n, <<a>>) : n \in 1..MaxPrefix, a \in PrefixAtoms}

\* refs/remotes/origin/<name>, as git branch -r prints them
RemoteNames == {<<Origin>> \o n : n \in Names}

\* no value: origin/HEAD unset, no base branch found
None == <<>>


(* ------------------------- string operations --------------------------- *)

\* String.prototype.startsWith
StartsWith(s, t) == s # <<>> /\ Head(s) = t

\* String.prototype.includes
Includes(s, t) == \E i \in 1..Len(s) : s[i] = t

\* String.prototype.trim: whitespace removed at both ends
RECURSIVE TrimLeft(_)
TrimLeft(s) == IF StartsWith(s, Indent) THEN TrimLeft(Tail(s)) ELSE s

RECURSIVE TrimRight(_)
TrimRight(s) ==
  IF s # <<>> /\ s[Len(s)] = Indent THEN TrimRight(SubSeq(s, 1, Len(s) - 1)) ELSE s

Trim(s) == TrimRight(TrimLeft(s))

\* s.replace(/^t/, ""): one leading occurrence removed
ReplaceLeading(s, t) == IF StartsWith(s, t) THEN Tail(s) ELSE s

\* s.replace(t, ""): the first occurrence removed, wherever it is
RECURSIVE ReplaceFirst(_, _)
ReplaceFirst(s, t) ==
  IF s = <<>> THEN <<>>
  ELSE IF Head(s) = t THEN Tail(s)
  ELSE <<Head(s)>> \o ReplaceFirst(Tail(s), t)

\* null, where the source has a BranchInfo or null/undefined
Null ==
  [name |-> <<>>, displayName |-> <<>>,
   isLocal |-> FALSE, isRemote |-> FALSE, isCurrent |-> FALSE]

\* lines.map((branch) => branch.trim())
TrimAll(lines) == [i \in 1..Len(lines) |-> Trim(lines[i])]

(* --------------------------- git's outputs ----------------------------- *)

\* stdout of "git branch", split at "\n": one line per local branch, the
\* checked-out one marked, and the empty piece after the last newline
GitBranch(refs, hd) ==
  [i \in 1..Len(refs) |->
     IF refs[i] = hd THEN <<Star>> \o refs[i] ELSE <<Indent>> \o refs[i]]
    \o << <<>> >>

\* stdout of "git branch -r", split at "\n": the symbolic origin/HEAD line
\* first (when origin/HEAD is set), then one line per remote-tracking branch
GitBranchR(rrefs, ohead) ==
  (IF ohead = None THEN <<>>
   ELSE << <<Indent, Origin, "HEAD", Arrow, Origin>> \o ohead >>)
    \o [i \in 1..Len(rrefs) |-> <<Indent>> \o rrefs[i]]
    \o << <<>> >>

\* stdout of "git symbolic-ref refs/remotes/origin/HEAD"
GitSymbolicRef(ohead) == <<RefsRemotesOrigin>> \o ohead \o <<Indent>>

(* --------------------------- getAllBranches ---------------------------- *)

\* one local line to a BranchInfo
ParseLocalLine(branch) ==
  LET isCurrent == StartsWith(branch, Star)
      name == Trim(ReplaceLeading(branch, Star))
  IN  [name |-> name,
       displayName |-> IF isCurrent THEN name \o <<" (current)">> ELSE name,
       isLocal |-> TRUE,
       isRemote |-> FALSE,
       isCurrent |-> isCurrent]

NonEmpty(line) == line # <<>>

\* the local listing parsed
LocalBranches(localOut) ==
  LET lines == SelectSeq(TrimAll(localOut), NonEmpty)
  IN  [i \in 1..Len(lines) |-> ParseLocalLine(lines[i])]

\* the remote line with a leading origin/ removed
ShortName(branch) == ReplaceLeading(branch, Origin)

\* HasLocal looking only at the branches that will be offered
HasLocalAmongOffered(branches, shortName) ==
  \E i \in 1..Len(branches) : ~branches[i].isCurrent /\ branches[i].name = shortName

\* whether a branch of that name is already in the list
HasLocal(branches, shortName) ==
  \E i \in 1..Len(branches) : branches[i].name = shortName

\* KeepRemoteLine without the test for the symbolic-ref arrow
KeepRemoteLineWithArrow(branch) == branch # <<>>

KeepRemoteLine(branch) == branch # <<>> /\ ~Includes(branch, Arrow)

\* ParseRemoteLine keeping a remote line whose short name is a local
\* branch's, as an entry that is both local and remote
ParseRemoteLineKeepBoth(branches, branch) ==
  [name |-> branch,
   displayName |-> ShortName(branch) \o <<" (remote)">>,
   isLocal |-> HasLocal(branches, ShortName(branch)),
   isRemote |-> TRUE,
   isCurrent |-> FALSE]

\* one remote line to a BranchInfo, or Null when a local branch has its name
ParseRemoteLine(branches, branch) ==
  LET fullName == branch
      shortName == ShortName(branch)
  IN  IF ~HasLocal(branches, shortName)
      THEN [name |-> fullName,
            displayName |-> shortName \o <<" (remote)">>,
            isLocal |-> FALSE,
            isRemote |-> TRUE,
            isCurrent |-> FALSE]
      ELSE Null

NotNull(b) == b # Null

\* the remote listing parsed against the branches found so far
RemoteBranches(branches, remoteOut) ==
  LET lines == SelectSeq(TrimAll(remoteOut), KeepRemoteLine)
      parsed == [i \in 1..Len(lines) |-> ParseRemoteLine(branches, lines[i])]
  IN  SelectSeq(parsed, NotNull)

\* NotCurrent keeping every branch
NotCurrentKeepAll(b) == TRUE

NotCurrent(b) == ~b.isCurrent

\* GetAllBranches giving up the local branches too when "git branch -r" fails
GetAllBranchesRemoteFatal(localOut, remoteOut, remoteOk) ==
  LET localBranches == LocalBranches(localOut)
      branches == IF remoteOk
                  THEN localBranches \o RemoteBranches(localBranches, remoteOut)
                  ELSE <<>>
  IN  SelectSeq(branches, NotCurrent)

\* the catalog: remoteOk is whether "git branch -r" succeeded
GetAllBranches(localOut, remoteOut, remoteOk) ==
  LET localBranches == LocalBranches(localOut)
      branches == IF remoteOk
                  THEN localBranches \o RemoteBranches(localBranches, remoteOut)
                  ELSE localBranches
  IN  SelectSeq(branches, NotCurrent)

(* --------------------------- switchToBranch ---------------------------- *)

\* branches.find((b) => b.name === name): the first such entry, or Null
FindByName(list, name) ==
  LET hits == {i \in 1..Len(list) : list[i].name = name}
  IN  IF hits = {} THEN Null
      ELSE list[CHOOSE i \in hits : \A j \in hits : i <= j]

\* SwitchCommand checking the selected ref out as it is
SwitchCommandPlain(branch) == <<"git checkout ">> \o branch.name

\* SwitchCommand naming the new local branch as the remote ref
SwitchCommandKeepPrefix(branch) ==
  IF branch.isRemote /\ ~branch.isLocal
  THEN <<"git checkout -b ">> \o branch.name \o <<" ">> \o branch.name
  ELSE <<"git checkout ">> \o branch.name

\* SwitchCommand removing the prefix from a local branch's name too
SwitchCommandStripLocal(branch) ==
  LET localName == ReplaceLeading(branch.name, Origin)
  IN  IF branch.isRemote /\ ~branch.isLocal
      THEN <<"git checkout -b ">> \o localName \o <<" ">> \o branch.name
      ELSE <<"git checkout ">> \o localName

\* SwitchCommand reading the entry's display text instead of its name
SwitchCommandFromDisplay(branch) ==
  IF branch.isRemote /\ ~branch.isLocal
  THEN LET localName == ReplaceLeading(branch.displayName, Origin)
       IN  <<"git checkout -b ">> \o localName \o <<" ">> \o branch.name
  ELSE IF branch.isLocal
  THEN <<"git checkout ">> \o branch.displayName
  ELSE LET localName == ReplaceLeading(branch.displayName, Origin)
       IN  <<"git checkout ">> \o localName

\* the checkout command line for a catalog entry
SwitchCommand(branch) ==
  IF branch.isRemote /\ ~branch.isLocal
  THEN LET localName == ReplaceLeading(branch.name, Origin)
       IN  <<"git checkout -b ">> \o localName \o <<" ">> \o branch.name
  ELSE IF branch.isLocal
  THEN <<"git checkout ">> \o branch.name
  ELSE LET localName == ReplaceLeading(branch.name, Origin)
       IN  <<"git checkout ">> \o localName

(* ---------------------------- rebaseBranch ----------------------------- *)

\* exit status of "git show-ref --verify --quiet refs/heads/<name>"
ShowRef(refs, name) == name \in Range(refs)

\* BaseBranch asking for master before main
BaseBranchMasterFirst(refs, ohead) ==
  IF ShowRef(refs, <<"master">>) THEN <<"master">>
  ELSE IF ShowRef(refs, <<"main">>) THEN <<"main">>
  ELSE IF ohead # None
  THEN ReplaceFirst(Trim(GitSymbolicRef(ohead)), RefsRemotesOrigin)
  ELSE None

\* BaseBranch keeping its initial "main" when every lookup fails
BaseBranchDefaultMain(refs, ohead) ==
  IF ShowRef(refs, <<"main">>) THEN <<"main">>
  ELSE IF ShowRef(refs, <<"master">>) THEN <<"master">>
  ELSE IF ohead # None
  THEN ReplaceFirst(Trim(GitSymbolicRef(ohead)), RefsRemotesOrigin)
  ELSE <<"main">>

\* the branch to rebase against, or None when it cannot be determined
BaseBranch(refs, ohead) ==
  IF ShowRef(refs, <<"main">>) THEN <<"main">>
  ELSE IF ShowRef(refs, <<"master">>) THEN <<"master">>
  ELSE IF ohead # None
  THEN ReplaceFirst(Trim(GitSymbolicRef(ohead)), RefsRemotesOrigin)
  ELSE None

\* the commands run to find it, in order
DiscoveryCommands(refs) ==
  << <<"git show-ref --verify --quiet refs/heads/main">> >>
    \o (IF ShowRef(refs, <<"main">>) THEN <<>>
        ELSE << <<"git show-ref --verify --quiet refs/heads/master">> >>
               \o (IF ShowRef(refs, <<"master">>) THEN <<>>
                   ELSE << <<"git symbolic-ref refs/remotes/origin/HEAD">> >>))

\* AlreadyOnBase comparing with "main" only
AlreadyOnMain(current, base) == current = <<"main">>

\* whether the rebase is skipped because the branch is the base branch
AlreadyOnBase(current, base) == current = base

\* RebaseCommand naming the local base branch
RebaseCommandLocal(base) == <<"git rebase ">> \o base

RebaseCommand(base) == <<"git rebase ", Origin>> \o base

(* ------------------------- git's state changes ------------------------- *)

\* the words of a checkout command line: what it creates (None for a plain
\* checkout) and what it checks out
CheckoutCreates(cmd) ==
  IF Head(cmd) = "git checkout -b "
  THEN LET sp == CHOOSE i \in 2..Len(cmd) :
                   cmd[i] = " " /\ \A j \in 2..(i - 1) : cmd[j] # " "
       IN  SubSeq(cmd, 2, sp - 1)
  ELSE None

CheckoutStartPoint(cmd) ==
  IF Head(cmd) = "git checkout -b "
  THEN SubSeq(cmd, Len(CheckoutCreates(cmd)) + 3, Len(cmd))
  ELSE Tail(cmd)

\* whether git can carry the checkout out in a repository with these refs
CheckoutValid(cmd, refs, rrefs) ==
  IF Head(cmd) = "git checkout -b "
  THEN /\ CheckoutCreates(cmd) # <<>>
       /\ CheckoutCreates(cmd) \notin Range(refs)
       /\ CheckoutStartPoint(cmd) \in Range(rrefs) \cup Range(refs)
  ELSE CheckoutStartPoint(cmd) \in Range(refs)

\* the upstream a rebase command line names
RebaseUpstream(cmd) == Tail(cmd)

\* whether git can resolve it in a repository with these refs
RebaseValid(cmd, refs, rrefs) == RebaseUpstream(cmd) \in Range(rrefs) \cup Range(refs)

(* ------------------------------- state --------------------------------- *)

VARIABLES
  localRefs,      \* refs/heads/*: the local branches, in git's listing order
  head,           \* the checked-out branch
  remoteRefs,     \* refs/remotes/*: the remote-tracking branches, in order
  originHead,     \* what refs/remotes/origin/HEAD points to, or None
  rebased,        \* the ref the checked-out branch was rebased onto, or None
  rebasing,       \* a rebase stopped on conflicts and is still in progress
  args,           \* process.argv.slice(2)
  pc,             \* where main is
  branches,       \* main's catalog
  choice,         \* the entry the user picked at the prompt (0: none yet)
  selectedBranch, \* the value the prompt returned
  branchInfo,     \* the entry main found for it
  switchCommand,  \* switchToBranch's command line
  currentBranch,  \* rebaseBranch's currentBranch
  baseBranch,     \* rebaseBranch's baseBranch
  cmds,           \* every command line handed to execSync, in order
  printed,        \* every message written, in order
  exitCode        \* the process's exit code (-1 while it runs)

\* git who (app.js); args is there the argument list, in order
VARIABLES
  userName,       \* what "git config user.name" prints
  contributors,   \* what "git log --format=%an | sort | uniq" lists
  timeRange,      \* main's timeRange
  targetAuthor    \* the author handed to fetchLogsForAuthor, or None

whoVars == <<userName, contributors, timeRange, targetAuthor>>

\* interactive tag creation (git tags)
VARIABLES
  repoTags,         \* the repository's tags, the latest one last
  remoteTags,       \* the tags pushed to the remote
  latestTag,        \* createInteractiveTag's latestTag (None: null)
  suggestedVersion, \* createInteractiveTag's suggestedVersion
  answers           \* what the prompts returned

tagVars == <<repoTags, remoteTags, latestTag, suggestedVersion, answers>>

\* git pr (pr.ts); it reads the repository, args, branches and currentBranch
VARIABLES
  prData,   \* what promptPRDetails returned: title, baseBranch, headBranch
  command,  \* createPR's command
  confirm   \* the answer to "Execute this command?"

prVars == <<prData, command, confirm>>

\* getLogs of the Go git who (who.go)
VARIABLES
  logs,          \* the lines of git log's output not read yet
  userLogItems,  \* getLogs's userLogItems
  panicked       \* the Go runtime panicked

goVars == <<logs, userLogItems, panicked>>

\* the state of the other tools of the repository
others == <<whoVars, tagVars, prVars, goVars>>

repo == <<localRefs, head, remoteRefs, originHead, rebased, rebasing>>

locals ==
  <<branches, choice, selectedBranch, branchInfo, switchCommand,
    currentBranch, baseBranch>>

vars == <<repo, args, pc, locals, cmds, printed, exitCode, others>>

Flags == {"--help", "--no-rebase", "--preview"}

\* noRebase looking for a flag of another spelling
noRebaseOtherFlag == "--norebase" \in args

noRebase == "--no-rebase" \in args

\* previewMode never passed on (the parameters' default)
previewModeDefault == FALSE

previewMode == "--preview" \in args

\* git who is not running
WhoIdle ==
  /\ userName = None
  /\ contributors = <<>>
  /\ timeRange = None
  /\ targetAuthor = None

\* the prompts of createInteractiveTag not answered yet
NoAnswers == [version |-> None, description |-> None, confirm |-> FALSE]

\* interactive tag creation is not running
TagsIdle ==
  /\ repoTags = <<>>
  /\ remoteTags = {}
  /\ latestTag = None
  /\ suggestedVersion = None
  /\ answers = NoAnswers

\* promptPRDetails has not returned yet
NoPrData == [title |-> None, baseBranch |-> None, headBranch |-> None]

\* git pr is not running
PrIdle ==
  /\ prData = NoPrData
  /\ command = None
  /\ confirm = FALSE

\* getLogs is not running
GoIdle ==
  /\ logs = <<>>
  /\ userLogItems = <<>>
  /\ panicked = FALSE

OthersIdle == WhoIdle /\ TagsIdle /\ PrIdle /\ GoIdle

Init ==
  /\ OthersIdle
  /\ \E ls \in SUBSET Names :
       /\ Cardinality(ls) \in 1..MaxLocal
       /\ localRefs = SortedSeq(ls)
       /\ head \in ls
  /\ \E rs \in SUBSET RemoteNames :
       /\ Cardinality(rs) <= MaxRemote
       /\ remoteRefs = SortedSeq(rs)
  /\ originHead \in {None} \cup {<<a>> : a \in Atoms}
  /\ rebased = None
  /\ rebasing = FALSE
  /\ args \in SUBSET Flags
  /\ pc = "main"
  /\ branches = <<>>
  /\ choice = 0
  /\ selectedBranch = None
  /\ branchInfo = Null
  /\ switchCommand = None
  /\ currentBranch = None
  /\ baseBranch = None
  /\ cmds = <<>>
  /\ printed = <<>>
  /\ exitCode = -1

\* Exit ending the process with code 0 whatever code is given
ExitCodeZero(code) == pc' = "done" /\ exitCode' = 0

\* process.exit(code), or main returning (code 0)
Exit(code) == pc' = "done" /\ exitCode' = code

(* ------------------------------- main ---------------------------------- *)

\* argument parsing and --help
Main ==
  /\ pc = "main"
  /\ UNCHANGED others
  /\ IF "--help" \in args
     THEN /\ printed' = Append(printed, <<"Git Switch - help">>)
          /\ Exit(0)
     ELSE /\ pc' = "checkGit"
          /\ UNCHANGED <<printed, exitCode>>
  /\ UNCHANGED <<repo, args, locals, cmds>>

\* CheckGitRepository reporting the error and going on
CheckGitRepositoryNoExit ==
  /\ pc = "checkGit"
  /\ UNCHANGED others
  /\ cmds' = Append(cmds, <<"git rev-parse --is-inside-work-tree">>)
  /\ \E ok \in BOOLEAN :
       printed' = IF ok THEN printed
                  ELSE Append(printed, <<"Error: Not in a Git repository.">>)
  /\ pc' = "fetch"
  /\ UNCHANGED <<repo, args, locals, exitCode>>

CheckGitRepository ==
  /\ pc = "checkGit"
  /\ UNCHANGED others
  /\ cmds' = Append(cmds, <<"git rev-parse --is-inside-work-tree">>)
  /\ \E ok \in BOOLEAN :
       IF ok
       THEN /\ pc' = "fetch"
            /\ UNCHANGED <<printed, exitCode>>
       ELSE /\ printed' = Append(printed, <<"Error: Not in a Git repository.">>)
            /\ Exit(1)
  /\ UNCHANGED <<repo, args, locals>>

FetchAllRemotes ==
  /\ pc = "fetch"
  /\ UNCHANGED others
  /\ cmds' = Append(cmds, <<"git fetch --all">>)
  /\ \E ok \in BOOLEAN :
       printed' =
         IF ok
         THEN Append(printed, <<"Successfully fetched from all remotes!">>)
         ELSE printed
                \o << <<"Failed to fetch from remotes">>,
                      <<"Warning: Could not fetch from remotes. Proceeding with local branches only.">> >>
  /\ pc' = "list"
  /\ UNCHANGED <<repo, args, locals, exitCode>>

\* getAllBranches and the empty-catalog return of main
LoadBranches ==
  /\ pc = "list"
  /\ UNCHANGED others
  /\ \E localOk \in BOOLEAN, remoteOk \in BOOLEAN :
       IF ~localOk
       THEN /\ cmds' = Append(cmds, <<"git branch">>)
            /\ printed' = Append(printed, <<"Error fetching branches">>)
            /\ Exit(1)
            /\ UNCHANGED branches
       ELSE /\ cmds' = cmds \o << <<"git branch">>, <<"git branch -r">> >>
            /\ branches' = GetAllBranches(GitBranch(localRefs, head),
                                          GitBranchR(remoteRefs, originHead),
                                          remoteOk)
            /\ LET warned ==
                     IF remoteOk THEN printed
                     ELSE Append(printed, <<"Warning: Could not fetch remote branches">>)
                   loaded == Append(warned, <<"Branches loaded!">>)
               IN  IF Len(branches') = 0
                   THEN /\ printed' = Append(loaded, <<"No other branches available to switch to.">>)
                        /\ Exit(0)
                   ELSE /\ printed' = loaded
                        /\ pc' = "prompt"
                        /\ UNCHANGED exitCode
  /\ UNCHANGED <<repo, args, choice, selectedBranch, branchInfo, switchCommand,
                 currentBranch, baseBranch>>

\* the prompt's answer, the lookup of the selected value, the preview header
Prompt ==
  /\ pc = "prompt"
  /\ UNCHANGED others
  /\ \E i \in 1..Len(branches) :
       /\ choice' = i
       /\ selectedBranch' = branches[i].name
  /\ branchInfo' = FindByName(branches, selectedBranch')
  /\ IF branchInfo' = Null
     THEN /\ printed' = Append(printed, <<"Error: Selected branch not found">>)
          /\ Exit(1)
     ELSE /\ printed' =
               IF previewMode
               THEN Append(printed, <<"Preview mode - commands that would be executed:">>)
               ELSE printed
          /\ pc' = "switch"
          /\ UNCHANGED exitCode
  /\ UNCHANGED <<repo, args, branches, switchCommand, currentBranch, baseBranch, cmds>>

\* SwitchFailed reporting the error and letting main go on
SwitchFailedGoOn ==
  /\ printed' = Append(printed, <<"Error switching to branch">>)
  /\ pc' = "rebase"
  /\ UNCHANGED exitCode

\* switchToBranch's catch: the checkout command failed
SwitchFailed ==
  /\ printed' = Append(printed, <<"Error switching to branch">>)
  /\ Exit(1)

SwitchToBranch ==
  /\ pc = "switch"
  /\ UNCHANGED others
  /\ switchCommand' = SwitchCommand(branchInfo)
  /\ IF previewMode
     THEN /\ printed' = Append(printed, <<"Switch command: ">> \o switchCommand')
          /\ pc' = "rebase"
          /\ UNCHANGED <<localRefs, head, cmds, exitCode>>
     ELSE /\ cmds' = Append(cmds, switchCommand')
          /\ \E ok \in BOOLEAN :
               /\ ok => CheckoutValid(switchCommand', localRefs, remoteRefs)
               /\ IF ok
                  THEN /\ localRefs' =
                            IF CheckoutCreates(switchCommand') = None THEN localRefs
                            ELSE SortedSeq(Range(localRefs)
                                             \cup {CheckoutCreates(switchCommand')})
                       /\ head' =
                            IF CheckoutCreates(switchCommand') = None
                            THEN CheckoutStartPoint(switchCommand')
                            ELSE CheckoutCreates(switchCommand')
                       /\ printed' =
                            Append(printed,
                                   <<"Successfully switched to branch ">>
                                     \o ReplaceLeading(branchInfo.name, Origin))
                       /\ pc' = "rebase"
                       /\ UNCHANGED exitCode
                  ELSE /\ SwitchFailed
                       /\ UNCHANGED <<localRefs, head>>
  /\ UNCHANGED <<remoteRefs, originHead, rebased, rebasing, args, branches,
                 choice, selectedBranch, branchInfo, currentBranch, baseBranch>>

\* main's else branch: --no-rebase
SkipRebase ==
  /\ pc = "rebase"
  /\ UNCHANGED others
  /\ noRebase
  /\ printed' = Append(printed, <<"Skipping rebase (--no-rebase flag specified)">>)
  /\ pc' = "finish"
  /\ UNCHANGED <<repo, args, locals, cmds, exitCode>>

RebaseFailed ==
  << <<"Rebase failed">>,
     <<"Rebase encountered conflicts or errors.">>,
     <<"You may need to resolve conflicts manually and run 'git rebase --continue'">> >>

\* StatusCommands undoing the stopped rebase
StatusCommandsAbort(dirty) ==
  << <<"git status --porcelain">>, <<"git rebase --abort">> >>

\* the commands run after a failed rebase: the short status and, when it has
\* output, the full status
StatusCommands(dirty) ==
  << <<"git status --porcelain">> >>
    \o (IF dirty THEN << <<"git status">> >> ELSE <<>>)

RebaseBranch ==
  /\ pc = "rebase"
  /\ UNCHANGED others
  /\ ~noRebase
  /\ pc' = "finish"
  /\ \E revParseOk \in BOOLEAN :
       IF ~revParseOk
       THEN /\ cmds' = Append(cmds, <<"git rev-parse --abbrev-ref HEAD">>)
            /\ printed' = Append(printed, <<"Error during rebase">>)
            /\ UNCHANGED <<currentBranch, baseBranch, rebased, rebasing>>
       ELSE
         LET found == cmds \o << <<"git rev-parse --abbrev-ref HEAD">> >>
                           \o DiscoveryCommands(localRefs)
             rebaseCommand == RebaseCommand(baseBranch')
         IN
         /\ currentBranch' = head
         /\ baseBranch' = BaseBranch(localRefs, originHead)
         /\ IF baseBranch' = None
            THEN /\ cmds' = found
                 /\ printed' = Append(printed,
                      <<"Warning: Could not determine main branch. Skipping rebase.">>)
                 /\ UNCHANGED <<rebased, rebasing>>
            ELSE IF AlreadyOnBase(currentBranch', baseBranch')
            THEN /\ cmds' = found
                 /\ printed' = Append(printed,
                      <<"Already on ">> \o baseBranch' \o <<", skipping rebase.">>)
                 /\ UNCHANGED <<rebased, rebasing>>
            ELSE IF previewMode
            THEN /\ cmds' = found
                 /\ printed' = Append(printed, <<"Rebase command: ">> \o rebaseCommand)
                 /\ UNCHANGED <<rebased, rebasing>>
            ELSE \E outcome \in {"ok", "conflict", "error"} :
                   /\ outcome \in {"ok", "conflict"} =>
                        RebaseValid(rebaseCommand, localRefs, remoteRefs)
                   /\ CASE outcome = "ok" ->
                             /\ cmds' = Append(found, rebaseCommand)
                             /\ rebased' = RebaseUpstream(rebaseCommand)
                             /\ printed' = Append(printed,
                                  <<"Successfully rebased ">> \o currentBranch'
                                    \o <<" onto ", Origin>> \o baseBranch')
                             /\ UNCHANGED rebasing
                        [] outcome = "conflict" ->
                             /\ cmds' = found \o <<rebaseCommand>>
                                               \o StatusCommands(TRUE)
                             /\ rebasing' = TRUE
                             /\ printed' = printed \o RebaseFailed
                                             \o << <<"Current git status:">> >>
                             /\ UNCHANGED rebased
                        [] outcome = "error" ->
                             /\ cmds' = found \o <<rebaseCommand>>
                                               \o StatusCommands(FALSE)
                             /\ printed' = printed \o RebaseFailed
                             /\ UNCHANGED <<rebased, rebasing>>
  /\ UNCHANGED <<localRefs, head, remoteRefs, originHead, args, branches, choice,
                 selectedBranch, branchInfo, switchCommand, exitCode>>

\* the end of main
Finish ==
  /\ pc = "finish"
  /\ UNCHANGED others
  /\ printed' = Append(printed,
                       IF previewMode THEN <<"End of preview">>
                       ELSE <<"Branch switch completed successfully!">>)
  /\ Exit(0)
  /\ UNCHANGED <<repo, args, locals, cmds>>

Next ==
  \/ Main
  \/ CheckGitRepository
  \/ FetchAllRemotes
  \/ LoadBranches
  \/ Prompt
  \/ SwitchToBranch
  \/ SkipRebase
  \/ RebaseBranch
  \/ Finish

Spec == Init /\ [][Next]_vars

(* ------------------- the tools beside git switch ----------------------- *)

\* the repository as git switch sees it plays no part
RepoIdle ==
  /\ localRefs = <<>>
  /\ head = None
  /\ remoteRefs = <<>>
  /\ originHead = None
  /\ rebased = None
  /\ rebasing = FALSE

\* git switch is not running
SwitchIdle ==
  /\ branches = <<>>
  /\ choice = 0
  /\ selectedBranch = None
  /\ branchInfo = Null
  /\ switchCommand = None
  /\ currentBranch = None
  /\ baseBranch = None

\* a process that has run no command and written nothing yet
ProcessStart ==
  /\ cmds = <<>>
  /\ printed = <<>>
  /\ exitCode = -1

(* ------------------------- git who (app.js) ---------------------------- *)

MaxArgs == 2

Authors == {"Alice", "Bob"}

\* what can stand on git who's command line
WhoArgs == {"--help", "--t", "--T"} \cup Authors

TimeRanges ==
  {"1 day ago", "1 week ago", "2 weeks ago", "1 month ago", "3 months ago",
   "6 months ago"}

\* args.includes(x)
ArgsInclude(x) == \E i \in 1..Len(args) : args[i] = x

isInteractive == ArgsInclude("--t")

isTimeFlag == ArgsInclude("--T")

InitWho ==
  /\ RepoIdle /\ SwitchIdle /\ ProcessStart
  /\ TagsIdle /\ PrIdle /\ GoIdle
  /\ \E n \in 0..MaxArgs : args \in [1..n -> WhoArgs]
  /\ userName \in Authors
  /\ contributors \in {<<"Alice">>, <<"Bob">>, <<"Alice", "Bob">>}
  /\ timeRange = "1 week ago"
  /\ targetAuthor = None
  /\ pc = "whoMain"

\* main up to the time range prompt
WhoMain ==
  /\ UNCHANGED <<tagVars, prVars, goVars>>
  /\ pc = "whoMain"
  /\ IF ArgsInclude("--help")
     THEN /\ printed' = Append(printed, <<"Git Who - help">>)
          /\ Exit(0)
     ELSE /\ pc' = IF isTimeFlag THEN "whoTime"
                   ELSE IF isInteractive THEN "whoContributors"
                   ELSE "whoTarget"
          /\ UNCHANGED <<printed, exitCode>>
  /\ UNCHANGED <<repo, locals, args, cmds, whoVars>>

\* the time range prompt of --T
WhoSelectTimeRange ==
  /\ UNCHANGED <<tagVars, prVars, goVars>>
  /\ pc = "whoTime"
  /\ timeRange' \in TimeRanges
  /\ pc' = IF isInteractive THEN "whoContributors" ELSE "whoTarget"
  /\ UNCHANGED <<repo, locals, args, cmds, printed, exitCode>>
  /\ UNCHANGED <<userName, contributors, targetAuthor>>

\* fetchContributors and the author prompt of --t
WhoSelectAuthor ==
  /\ UNCHANGED <<tagVars, prVars, goVars>>
  /\ pc = "whoContributors"
  /\ cmds' = Append(cmds, <<"git log --format=%an | sort | uniq">>)
  /\ \E ok \in BOOLEAN :
       IF ok
       THEN /\ printed' = Append(printed, <<"Contributors fetched!">>)
            /\ \E i \in 1..Len(contributors) : targetAuthor' = contributors[i]
            /\ pc' = "whoLogs"
            /\ UNCHANGED exitCode
       ELSE /\ printed' = Append(printed, <<"Error fetching contributors:">>)
            /\ Exit(1)
            /\ UNCHANGED targetAuthor
  /\ UNCHANGED <<repo, locals, args, userName, contributors, timeRange>>

\* args[0] || execSync('git config user.name')
TargetAuthor ==
  IF Len(args) > 0 /\ args[1] # "" THEN args[1] ELSE userName

\* the else branch of main: the author without --t
WhoTargetAuthor ==
  /\ UNCHANGED <<tagVars, prVars, goVars>>
  /\ pc = "whoTarget"
  /\ IF Len(args) > 0 /\ args[1] # ""
     THEN /\ targetAuthor' = TargetAuthor
          /\ pc' = "whoLogs"
          /\ UNCHANGED <<cmds, exitCode>>
     ELSE /\ cmds' = Append(cmds, <<"git config user.name">>)
          /\ \E ok \in BOOLEAN :
               IF ok
               THEN /\ targetAuthor' = TargetAuthor
                    /\ pc' = "whoLogs"
                    /\ UNCHANGED exitCode
               ELSE \* execSync throws and nothing catches it
                    /\ Exit(1)
                    /\ UNCHANGED targetAuthor
  /\ UNCHANGED <<repo, locals, args, printed, userName, contributors, timeRange>>

\* the git log command line of fetchLogsForAuthor
LogCommand(author, since) ==
  <<"git log --author=", author, " --since=", since>>

\* fetchLogsForAuthor
WhoFetchLogs ==
  /\ UNCHANGED <<tagVars, prVars, goVars>>
  /\ pc = "whoLogs"
  /\ cmds' = Append(cmds, LogCommand(targetAuthor, timeRange))
  /\ \E ok \in BOOLEAN, found \in BOOLEAN :
       IF ok
       THEN /\ printed' =
                 printed
                   \o << <<"Logs fetched successfully!">>,
                         IF found THEN <<"Recent logs for ", targetAuthor>>
                         ELSE <<"No logs found for ", targetAuthor,
                                " in the past ", timeRange>> >>
            /\ Exit(0)
       ELSE /\ printed' = Append(printed, <<"Error fetching logs:">>)
            /\ Exit(1)
  /\ UNCHANGED <<repo, locals, args, whoVars>>

NextWho ==
  \/ WhoMain
  \/ WhoSelectTimeRange
  \/ WhoSelectAuthor
  \/ WhoTargetAuthor
  \/ WhoFetchLogs

SpecWho == InitWho /\ [][NextWho]_vars

(* --------------- interactive tag creation (git tags) ------------------- *)

MaxTagLen == 6

\* the characters tag names are made of
TagChars == {"v", ".", "-", "0", "9"}

Digits == {"0", "1", "2", "3", "4", "5", "6", "7", "8", "9"}

DigitChar == <<"0", "1", "2", "3", "4", "5", "6", "7", "8", "9">>

\* the names git accepts for a tag: not empty, no leading "-" or ".", no
\* trailing ".", no ".."
TagNames ==
  {t \in UNION {[1..n -> TagChars] : n \in 1..MaxTagLen} :
     /\ t[1] \notin {"-", "."}
     /\ t[Len(t)] # "."
     /\ \A i \in 1..(Len(t) - 1) : ~(t[i] = "." /\ t[i + 1] = ".")}

\* s.split(sep): the pieces between the separators, empty ones included
RECURSIVE Split(_, _)
Split(s, sep) ==
  LET at == {i \in 1..Len(s) : s[i] = sep}
  IN  IF at = {} THEN <<s>>
      ELSE LET i == CHOOSE k \in at : \A j \in at : k <= j
           IN  <<SubSeq(s, 1, i - 1)>> \o Split(SubSeq(s, i + 1, Len(s)), sep)

\* the value of a string of decimal digits
RECURSIVE DecimalValue(_)
DecimalValue(s) ==
  IF s = <<>> THEN 0
  ELSE 10 * DecimalValue(SubSeq(s, 1, Len(s) - 1))
         + (CHOOSE d \in 0..9 : DigitChar[d + 1] = s[Len(s)])

AllDigits(s) == \A i \in 1..Len(s) : s[i] \in Digits

\* the elements of versionParts: a number, NaN, or a hole of the array
Num(n) == [kind |-> "number", n |-> n]

NaN == [kind |-> "NaN", n |-> 0]

Hole == [kind |-> "empty", n |-> 0]

\* Number(s): 0 for the empty string, the value of a decimal numeral with an
\* optional sign, NaN for anything else
Number(s) ==
  IF s = <<>> THEN Num(0)
  ELSE IF AllDigits(s) THEN Num(DecimalValue(s))
  ELSE IF s[1] = "-" /\ Len(s) > 1 /\ AllDigits(Tail(s))
  THEN Num(0 - DecimalValue(Tail(s)))
  ELSE NaN

\* the decimal numeral of a natural number
RECURSIVE Numeral(_)
Numeral(n) ==
  IF n < 10 THEN <<DigitChar[n + 1]>>
  ELSE Numeral(n \div 10) \o <<DigitChar[(n % 10) + 1]>>

\* String(x) as Array.prototype.join writes an element: a hole or undefined
\* gives the empty string
ElementString(x) ==
  IF x.kind = "NaN" THEN <<"NaN">>
  ELSE IF x.kind = "empty" THEN <<>>
  ELSE IF x.n < 0 THEN <<"-">> \o Numeral(0 - x.n)
  ELSE Numeral(x.n)

\* parts.join(sep)
RECURSIVE Join(_, _)
Join(parts, sep) ==
  IF parts = <<>> THEN <<>>
  ELSE IF Len(parts) = 1 THEN ElementString(parts[1])
  ELSE ElementString(parts[1]) \o <<sep>> \o Join(Tail(parts), sep)

\* x || 0
OrZero(x) == IF x.kind = "number" THEN x.n ELSE 0

\* versionParts[2] = (versionParts[2] || 0) + 1 incrementing the minor part
IncrementMinor(versionParts) ==
  [i \in 1..(IF Len(versionParts) < 2 THEN 2 ELSE Len(versionParts)) |->
     IF i = 2
     THEN Num(OrZero(IF i <= Len(versionParts)
                     THEN versionParts[i] ELSE Hole) + 1)
     ELSE IF i <= Len(versionParts) THEN versionParts[i] ELSE Hole]

\* versionParts[2] = (versionParts[2] || 0) + 1: an array shorter than three
\* is extended, the elements never written are holes
IncrementPatch(versionParts) ==
  [i \in 1..(IF Len(versionParts) < 3 THEN 3 ELSE Len(versionParts)) |->
     IF i = 3
     THEN Num(OrZero(IF i <= Len(versionParts)
                     THEN versionParts[i] ELSE Hole) + 1)
     ELSE IF i <= Len(versionParts) THEN versionParts[i] ELSE Hole]

\* the version when the repository has no tag
FirstVersion == <<"1", ".", "0", ".", "0">>

suggestNextVersion(currentVersion) ==
  IF currentVersion = None THEN FirstVersion
  ELSE LET pieces == Split(ReplaceLeading(currentVersion, "v"), ".")
           versionParts == [i \in 1..Len(pieces) |-> Number(pieces[i])]
       IN  Join(IncrementPatch(versionParts), ".")

\* /^\d+\.\d+\.\d+$/.test(input)
validateVersion(input) ==
  LET pieces == Split(input, ".")
  IN  /\ Len(pieces) = 3
      /\ \A i \in 1..3 : pieces[i] # <<>> /\ AllDigits(pieces[i])

\* a version the user types at the prompt instead of taking the default
TypedVersions == {<<"9", ".", "0", ".", "0">>}

\* the tag name of a version: v${answers.version}
TagOf(version) == <<"v">> \o version

TagCommand(version) == <<"git tag -a ">> \o TagOf(version)

InitTags ==
  /\ RepoIdle /\ SwitchIdle /\ ProcessStart
  /\ WhoIdle /\ PrIdle /\ GoIdle
  /\ args = {}
  /\ repoTags \in {<<>>} \cup {<<t>> : t \in TagNames}
  /\ remoteTags = {}
  /\ latestTag = None
  /\ suggestedVersion = None
  /\ answers = NoAnswers
  /\ pc = "tagStart"

\* the catch of createInteractiveTag
TagsFailed ==
  /\ \E msg \in {<<"Error: Not a git repository. Please run this command in a git project.">>,
                 <<"An error occurred:">>} :
       printed' = Append(printed, msg)
  /\ Exit(1)

\* createInteractiveTag up to the prompts: the repository check, getLatestTag
\* and suggestNextVersion
TagsSuggest ==
  /\ UNCHANGED <<whoVars, prVars, goVars>>
  /\ pc = "tagStart"
  /\ \E ok \in BOOLEAN :
       IF ok
       THEN /\ cmds' = cmds \o << <<"git rev-parse --is-inside-work-tree">>,
                                 <<"git describe --tags --abbrev=0">> >>
            /\ latestTag' = IF repoTags = <<>> THEN None
                            ELSE repoTags[Len(repoTags)]
            /\ suggestedVersion' = suggestNextVersion(latestTag')
            /\ pc' = "tagPrompt"
            /\ UNCHANGED <<printed, exitCode>>
       ELSE /\ cmds' = Append(cmds, <<"git rev-parse --is-inside-work-tree">>)
            /\ TagsFailed
            /\ UNCHANGED <<latestTag, suggestedVersion>>
  /\ UNCHANGED <<repo, locals, args, repoTags, remoteTags, answers>>

\* the three prompts: the version (the default is offered, only a valid
\* version is accepted), the description and the confirmation
TagsPrompt ==
  /\ UNCHANGED <<whoVars, prVars, goVars>>
  /\ pc = "tagPrompt"
  /\ \E version \in TypedVersions \cup {suggestedVersion}, yes \in BOOLEAN :
       /\ validateVersion(version)
       /\ answers' = [version |-> version,
                      description |-> <<"Release version">>,
                      confirm |-> yes]
  /\ pc' = "tagConfirm"
  /\ UNCHANGED <<repo, locals, args, cmds, printed, exitCode>>
  /\ UNCHANGED <<repoTags, remoteTags, latestTag, suggestedVersion>>

\* TagsCreate not looking at the confirmation
TagsCreateUnasked ==
  /\ UNCHANGED <<whoVars, prVars, goVars>>
  /\ pc = "tagConfirm"
  /\ cmds' = Append(cmds, TagCommand(answers.version))
  /\ \E ok \in BOOLEAN :
       IF ok /\ TagOf(answers.version) \notin Range(repoTags)
       THEN /\ repoTags' = Append(repoTags, TagOf(answers.version))
            /\ printed' = Append(printed, <<"Tag ">> \o TagOf(answers.version)
                                            \o <<" created successfully!">>)
            /\ pc' = "tagPush"
            /\ UNCHANGED exitCode
       ELSE /\ TagsFailed
            /\ UNCHANGED repoTags
  /\ UNCHANGED <<repo, locals, args, remoteTags, latestTag, suggestedVersion, answers>>

\* if (answers.confirm): git tag -a
TagsCreate ==
  /\ UNCHANGED <<whoVars, prVars, goVars>>
  /\ pc = "tagConfirm"
  /\ answers.confirm
  /\ cmds' = Append(cmds, TagCommand(answers.version))
  /\ \E ok \in BOOLEAN :
       IF ok /\ TagOf(answers.version) \notin Range(repoTags)
       THEN /\ repoTags' = Append(repoTags, TagOf(answers.version))
            /\ printed' = Append(printed, <<"Tag ">> \o TagOf(answers.version)
                                            \o <<" created successfully!">>)
            /\ pc' = "tagPush"
            /\ UNCHANGED exitCode
       ELSE /\ TagsFailed
            /\ UNCHANGED repoTags
  /\ UNCHANGED <<repo, locals, args, remoteTags, latestTag, suggestedVersion, answers>>

\* the else branch: the user declined
TagsCancel ==
  /\ UNCHANGED <<whoVars, prVars, goVars>>
  /\ pc = "tagConfirm"
  /\ ~answers.confirm
  /\ printed' = Append(printed, <<"Tag creation cancelled.">>)
  /\ Exit(0)
  /\ UNCHANGED <<repo, locals, args, cmds, tagVars>>

\* git push --tags; a failure is only a warning
TagsPush ==
  /\ UNCHANGED <<whoVars, prVars, goVars>>
  /\ pc = "tagPush"
  /\ cmds' = Append(cmds, <<"git push --tags">>)
  /\ \E ok \in BOOLEAN :
       IF ok
       THEN /\ remoteTags' = remoteTags \cup Range(repoTags)
            /\ printed' = Append(printed, <<"Tag pushed to remote repository">>)
       ELSE /\ printed' = Append(printed, <<"Could not push tag to remote. Check your connection and permissions.">>)
            /\ UNCHANGED remoteTags
  /\ pc' = "tagDisplay"
  /\ UNCHANGED <<repo, locals, args, exitCode>>
  /\ UNCHANGED <<repoTags, latestTag, suggestedVersion, answers>>

\* displayTags, and the end of createInteractiveTag
TagsDisplay ==
  /\ UNCHANGED <<whoVars, prVars, goVars>>
  /\ pc = "tagDisplay"
  /\ cmds' = Append(cmds, <<"git tag">>)
  /\ \E ok \in BOOLEAN :
       printed' = Append(printed, IF ok THEN <<"Tags">>
                                  ELSE <<"Error fetching tags:">>)
  /\ Exit(0)
  /\ UNCHANGED <<repo, locals, args, tagVars>>

NextTags ==
  \/ TagsSuggest
  \/ TagsPrompt
  \/ TagsCreate
  \/ TagsCancel
  \/ TagsPush
  \/ TagsDisplay

SpecTags == InitTags /\ [][NextTags]_vars

(* --------------------------- git pr (pr.ts) ---------------------------- *)

MaxTitle == 2

\* slice(0, 50) of createFeatureBranch
SliceLen == 50

\* the branch names of git pr's repositories
PrNames == {<<"dev">>, <<"main">>, <<"Main">>, <<"master">>}

PrFlags == {"--help", "--preview"}

\* the characters of a PR title: a capital, a small letter, a blank, a
\* special character
TitleChars == {"A", "b", " ", "!"}

\* the titles the prompt accepts: input.trim() !== ""
Titles ==
  {t \in UNION {[1..n -> TitleChars] : n \in 1..MaxTitle} :
     \E i \in 1..Len(t) : t[i] # " "}

\* String.prototype.toLowerCase, token by token
LowerToken(t) ==
  CASE t = "A" -> "a"
    [] t = "Main" -> "main"
    [] OTHER -> t

ToLowerCase(s) == [i \in 1..Len(s) |-> LowerToken(s[i])]

\* /[^a-z0-9\s-]/ does not match the character
SlugChar(c) == c \in {"a", "b", " ", "-"}

\* replace(/\s+/g, "-"): every run of blanks becomes one hyphen
RECURSIVE HyphenateBlanks(_)
HyphenateBlanks(s) ==
  IF s = <<>> THEN <<>>
  ELSE IF Head(s) # " " THEN <<Head(s)>> \o HyphenateBlanks(Tail(s))
  ELSE IF Len(s) > 1 /\ s[2] = " " THEN HyphenateBlanks(Tail(s))
  ELSE <<"-">> \o HyphenateBlanks(Tail(s))

\* the feature branch's name made from the PR title
BranchName(title) ==
  LET clean == HyphenateBlanks(SelectSeq(ToLowerCase(title), SlugChar))
  IN  <<"feature/">>
        \o SubSeq(clean, 1, IF Len(clean) < SliceLen THEN Len(clean) ELSE SliceLen)

\* output.trim().split("\n"): the lines, one empty string for an empty output
TrimSplit(out) ==
  LET lines == SelectSeq(out, NonEmpty)
  IN  IF lines = <<>> THEN << <<>> >> ELSE lines

\* filter((branch) => branch !== "HEAD ->" && !branch.includes("->"))
NoArrow(branch) == ~Includes(branch, Arrow)

\* fetchBranches: the longer of the two listings, the remote one on a tie
FetchBranches(refs, hd, rrefs, ohead) ==
  LET remoteLines == TrimSplit(GitBranchR(rrefs, ohead))
      branchesOutput ==
        SelectSeq([i \in 1..Len(remoteLines) |->
                     ReplaceFirst(Trim(remoteLines[i]), Origin)], NoArrow)
      localLines == TrimSplit(GitBranch(refs, hd))
      localBranches ==
        SelectSeq([i \in 1..Len(localLines) |->
                     Trim(ReplaceLeading(TrimLeft(localLines[i]), Star))], NoArrow)
  IN  IF Len(localBranches) > Len(branchesOutput) THEN localBranches
      ELSE branchesOutput

NeedsFeatureBranch(list, current) ==
  IF Len(list) = 1
  THEN ToLowerCase(current) \in {<<"main">>, <<"master">>}
  ELSE ToLowerCase(current) \in {<<"main">>, <<"master">>}

\* the command with title, base and head (assignee and labels left out)
PrCommand(data) ==
  <<"gh pr create --title ">> \o data.title
    \o <<" --base ">> \o data.baseBranch \o <<" --head ">> \o data.headBranch

\* git accepts the new branch: its name has something after "feature/" and
\* no branch of that name exists
FeatureBranchValid(name, refs) == Len(name) > 1 /\ name \notin Range(refs)

InitPr ==
  /\ WhoIdle /\ TagsIdle /\ PrIdle /\ GoIdle
  /\ SwitchIdle /\ ProcessStart
  /\ \E ls \in SUBSET PrNames :
       /\ Cardinality(ls) \in 1..MaxLocal
       /\ localRefs = SortedSeq(ls)
       /\ head \in ls
  /\ \E rs \in SUBSET {<<Origin>> \o n : n \in {<<"dev">>, <<"main">>}} :
       /\ Cardinality(rs) <= MaxRemote
       /\ remoteRefs = SortedSeq(rs)
  /\ originHead \in {None, <<"main">>}
  /\ rebased = None
  /\ rebasing = FALSE
  /\ args \in SUBSET PrFlags
  /\ pc = "prMain"

\* main: --help
PrMain ==
  /\ UNCHANGED others
  /\ pc = "prMain"
  /\ IF "--help" \in args
     THEN /\ printed' = Append(printed, <<"Git PR - help">>)
          /\ Exit(0)
     ELSE /\ pc' = "prCheck"
          /\ UNCHANGED <<printed, exitCode>>
  /\ UNCHANGED <<repo, args, locals, cmds>>

\* the commands of checkGitHubCLI and checkGitHubRepo
PrChecks ==
  << <<"gh --version">>, <<"gh auth status">>,
     <<"git rev-parse --is-inside-work-tree">>, <<"gh repo view">> >>

\* checkGitHubCLI and checkGitHubRepo: the first failing command ends the run
PrCheck ==
  /\ UNCHANGED others
  /\ pc = "prCheck"
  /\ \E passed \in 0..Len(PrChecks) :
       /\ cmds' = cmds \o SubSeq(PrChecks, 1,
                                 IF passed < Len(PrChecks) THEN passed + 1
                                 ELSE passed)
       /\ IF passed < 2
          THEN /\ printed' =
                    printed
                      \o << <<"Error: GitHub CLI is not installed or not authenticated.">>,
                            <<"Please install GitHub CLI and authenticate with 'gh auth login'.">> >>
               /\ Exit(1)
          ELSE IF passed < Len(PrChecks)
          THEN /\ printed' = Append(printed, <<"Error: Not in a GitHub repository or gh is not configured properly.">>)
               /\ Exit(1)
          ELSE /\ pc' = "prDetails"
               /\ UNCHANGED <<printed, exitCode>>
  /\ UNCHANGED <<repo, args, locals>>

\* the commands of promptPRDetails
PrDetailCommands ==
  << <<"gh api repos/:owner/:repo/collaborators --jq '.[].login'">>,
     <<"gh api repos/:owner/:repo/labels --jq '.[].name'">>,
     <<"git branch -r">>, <<"git branch">>,
     <<"git rev-parse --abbrev-ref HEAD">> >>

\* promptPRDetails: the listings, then the prompts for title, base and head
PrPromptDetails ==
  /\ UNCHANGED <<whoVars, tagVars, goVars, command, confirm>>
  /\ pc = "prDetails"
  /\ cmds' = cmds \o PrDetailCommands
  /\ \E ok \in BOOLEAN :
       branches' = IF ok
                   THEN FetchBranches(localRefs, head, remoteRefs, originHead)
                   ELSE <<>>
  /\ printed' = Append(printed, <<"Create a new pull request">>)
  /\ IF branches' = <<>>
     THEN \* a list prompt without choices throws, and nothing catches it
          /\ Exit(1)
          /\ UNCHANGED prData
     ELSE /\ \E title \in Titles, b \in 1..Len(branches'),
                h \in 1..Len(branches') :
               prData' = [title |-> title,
                          baseBranch |-> branches'[b],
                          headBranch |-> branches'[h]]
          /\ pc' = "prCreate"
          /\ UNCHANGED exitCode
  /\ UNCHANGED <<repo, args>>
  /\ UNCHANGED <<choice, selectedBranch, branchInfo, switchCommand,
                 currentBranch, baseBranch>>

\* getCurrentBranch: the checked-out branch, "" when the command fails
GetCurrentBranch(ok) == IF ok THEN head ELSE None

\* SameBranches never finding base and head the same
SameBranchesNever(data) == FALSE

\* prData.baseBranch === prData.headBranch
SameBranches(data) == data.baseBranch = data.headBranch

\* createFeatureBranch and what createPR does with its result
CreateFeatureBranch ==
  /\ cmds' = cmds \o << <<"git rev-parse --abbrev-ref HEAD">>,
                        <<"git checkout -b ">> \o BranchName(prData.title) >>
  /\ \E ok \in BOOLEAN :
       IF ok /\ FeatureBranchValid(BranchName(prData.title), localRefs)
       THEN /\ localRefs' = SortedSeq(Range(localRefs) \cup {BranchName(prData.title)})
            /\ head' = BranchName(prData.title)
            /\ prData' = [prData EXCEPT !.headBranch = BranchName(prData.title)]
            /\ printed' =
                 printed
                   \o << <<"Feature branch created: ">> \o BranchName(prData.title),
                         <<"Created and switched to feature branch: ">>
                           \o BranchName(prData.title),
                         <<"Make your changes and commit them, then run this command again to create the PR.">> >>
            /\ Exit(0)
       ELSE /\ printed' = Append(printed, <<"Error creating feature branch: ">>)
            /\ Exit(1)
            /\ UNCHANGED <<localRefs, head, prData>>
  /\ UNCHANGED command

\* createPR up to the preview: the feature branch, the check of base and
\* head, the command
PrCreate ==
  /\ UNCHANGED <<whoVars, tagVars, goVars, confirm>>
  /\ pc = "prCreate"
  /\ \E ok \in BOOLEAN : currentBranch' = GetCurrentBranch(ok)
  /\ IF NeedsFeatureBranch(branches, currentBranch')
     THEN CreateFeatureBranch
     ELSE /\ cmds' = Append(cmds, <<"git rev-parse --abbrev-ref HEAD">>)
          /\ IF SameBranches(prData)
             THEN /\ printed' = Append(printed, <<"Cannot create PR: base and head branches are the same">>)
                  /\ Exit(1)
                  /\ UNCHANGED command
             ELSE /\ command' = PrCommand(prData)
                  /\ IF "--preview" \in args
                     THEN /\ printed' = printed \o << <<"Command Preview:">>, command' >>
                          /\ pc' = "prConfirm"
                     ELSE /\ pc' = "prExec"
                          /\ UNCHANGED printed
                  /\ UNCHANGED exitCode
          /\ UNCHANGED <<localRefs, head, prData>>
  /\ UNCHANGED <<remoteRefs, originHead, rebased, rebasing, args>>
  /\ UNCHANGED <<branches, choice, selectedBranch, branchInfo, switchCommand,
                 baseBranch>>

\* the confirmation of a preview run
PrConfirm ==
  /\ UNCHANGED <<whoVars, tagVars, goVars, prData, command>>
  /\ pc = "prConfirm"
  /\ confirm' \in BOOLEAN
  /\ IF confirm'
     THEN /\ pc' = "prExec"
          /\ UNCHANGED <<printed, exitCode>>
     ELSE /\ printed' = Append(printed, <<"PR creation cancelled.">>)
          /\ Exit(0)
  /\ UNCHANGED <<repo, args, locals, cmds>>

\* execSync(command)
PrExec ==
  /\ UNCHANGED others
  /\ pc = "prExec"
  /\ cmds' = Append(cmds, command)
  /\ \E ok \in BOOLEAN :
       IF ok
       THEN /\ printed' = Append(printed, <<"Pull request created successfully!">>)
            /\ Exit(0)
       ELSE /\ printed' = Append(printed, <<"Error creating PR: ">>)
            /\ Exit(1)
  /\ UNCHANGED <<repo, args, locals>>

NextPr ==
  \/ PrMain
  \/ PrCheck
  \/ PrPromptDetails
  \/ PrCreate
  \/ PrConfirm
  \/ PrExec

SpecPr == InitPr /\ [][NextPr]_vars

(* ---------------------- getLogs of who.go (Go) ------------------------- *)

MaxPieces == 4

\* what stands between the blanks of a line of
\* git log --oneline --decorate --graph
Pieces == {"*", "|/", "4ab3c4b", "fix"}

\* strings.Split(logItem, " ") of the non-empty lines
LogLines == UNION {[1..n -> Pieces] : n \in 1..MaxPieces}

\* strings.Split("", " ")
EmptyLine == <<"">>

baseOrigin == "origin"

\* strings.Split(logItem, " ")[1:len(strings.Split(logItem, " "))]
CommitLog(logItem) == SubSeq(logItem, 2, Len(logItem))

\* commitLog[0] and commitLog[2] are inside the slice
IndicesInRange(commitLog) == Len(commitLog) > 2

\* the UserLogItem of a line
UserLogItem(commitLog) ==
  [Origin |-> IF Len(commitLog) = 3 THEN commitLog[2] ELSE baseOrigin,
   CommitHash |-> commitLog[1],
   CommitMessage |-> commitLog[3]]

InitGetLogs ==
  /\ RepoIdle /\ SwitchIdle /\ ProcessStart
  /\ WhoIdle /\ TagsIdle /\ PrIdle
  /\ args = {}
  /\ \E first \in LogLines, rest \in {<<>>} \cup {<<l>> : l \in LogLines} :
       logs = <<first>> \o rest \o <<EmptyLine>>
  /\ userLogItems = <<>>
  /\ panicked = FALSE
  /\ pc = "getLogs"

\* one turn of the loop: an empty line is skipped, an index outside the
\* slice is a runtime panic
GetLogsLine ==
  /\ UNCHANGED <<whoVars, tagVars, prVars>>
  /\ pc = "getLogs"
  /\ logs # <<>>
  /\ IF Head(logs) = EmptyLine
     THEN /\ logs' = Tail(logs)
          /\ UNCHANGED <<userLogItems, panicked, pc, exitCode>>
     ELSE IF IndicesInRange(CommitLog(Head(logs)))
     THEN /\ userLogItems' = Append(userLogItems, UserLogItem(CommitLog(Head(logs))))
          /\ logs' = Tail(logs)
          /\ UNCHANGED <<panicked, pc, exitCode>>
     ELSE /\ panicked' = TRUE
          /\ Exit(2)
          /\ UNCHANGED <<logs, userLogItems>>
  /\ UNCHANGED <<repo, args, locals, cmds, printed>>

\* return userLogItems
GetLogsReturn ==
  /\ UNCHANGED others
  /\ pc = "getLogs"
  /\ logs = <<>>
  /\ Exit(0)
  /\ UNCHANGED <<repo, args, locals, cmds, printed>>

NextGetLogs ==
  \/ GetLogsLine
  \/ GetLogsReturn

SpecGetLogs == InitGetLogs /\ [][NextGetLogs]_vars

(* ------------------------------ claims --------------------------------- *)

\* a name with a leading origin/ removed
StripOrigin(n) == IF n # <<>> /\ n[1] = Origin THEN SubSeq(n, 2, Len(n)) ELSE n

\* the catalog is built and the repository is still as it was listed
CatalogBuilt ==
  \/ pc \in {"prompt", "switch"}
  \/ pc = "done" /\ printed # <<>>
       /\ printed[Len(printed)] = <<"No other branches available to switch to.">>

\* the lines of the two listings, trimmed, blank lines dropped
LocalLines == SelectSeq(TrimAll(GitBranch(localRefs, head)), NonEmpty)

RemoteLines == SelectSeq(TrimAll(GitBranchR(remoteRefs, originHead)), NonEmpty)

RemoteListingFailed ==
  \E i \in 1..Len(printed) : printed[i] = <<"Warning: Could not fetch remote branches">>

\* C1: a remote line whose short name is the name of a local branch (the
\* current one included) leaves no remote entry of that short name in the catalog
C1_Dedup ==
  CatalogBuilt =>
    \A i \in 1..Len(RemoteLines) :
      StripOrigin(RemoteLines[i]) \in Range(localRefs) =>
        ~\E k \in 1..Len(branches) :
           /\ branches[k].isRemote
           /\ StripOrigin(branches[k].name) = StripOrigin(RemoteLines[i])

\* the remote copy of the checked-out branch was dropped while other remote
\* branches were kept
C1_Witness ==
  /\ pc = "prompt"
  /\ <<Origin>> \o head \in Range(remoteRefs)
  /\ \E k \in 1..Len(branches) : branches[k].isRemote

\* C2: with one marked line in the local listing, one parsed branch is current,
\* it is named as the line without its marker, and the catalog has no local
\* entry of that name
C2_CurrentExcluded ==
  CatalogBuilt =>
    LET marked == {i \in 1..Len(LocalLines) : LocalLines[i][1] = Star}
        parsed == LocalBranches(GitBranch(localRefs, head))
        current == {i \in 1..Len(parsed) : parsed[i].isCurrent}
    IN  Cardinality(marked) = 1 =>
          /\ Cardinality(current) = 1
          /\ \A i \in current :
               /\ i \in marked
               /\ <<Star>> \o parsed[i].name = LocalLines[i]
               /\ parsed[i].name = head
               /\ ~\E k \in 1..Len(branches) :
                    branches[k].name = parsed[i].name /\ branches[k].isLocal

\* a catalog with local entries, built from a listing with a marked line
C2_Witness ==
  /\ pc = "prompt"
  /\ Len(localRefs) > 1
  /\ \E i \in 1..Len(LocalLines) : LocalLines[i] = <<Star>> \o head
  /\ \E k \in 1..Len(branches) : branches[k].isLocal

C3_LocalEntry(name) ==
  [name |-> name, displayName |-> name,
   isLocal |-> TRUE, isRemote |-> FALSE, isCurrent |-> FALSE]

C3_RemoteEntry(ref) ==
  [name |-> ref, displayName |-> StripOrigin(ref) \o <<" (remote)">>,
   isLocal |-> FALSE, isRemote |-> TRUE, isCurrent |-> FALSE]

C3_Expected ==
  LET Offered(ref) == ref # head
      NoLocal(line) ==
        /\ ~\E j \in 1..Len(line) : line[j] = Arrow
        /\ StripOrigin(line) \notin Range(localRefs)
      offered == SelectSeq(localRefs, Offered)
      remotes == SelectSeq(RemoteLines, NoLocal)
  IN  [i \in 1..Len(offered) |-> C3_LocalEntry(offered[i])]
        \o [i \in 1..Len(remotes) |-> C3_RemoteEntry(remotes[i])]

Resolved == switchCommand # None

RemoteOnly(b) == b.isRemote /\ ~b.isLocal

CountOrigin(n) == Cardinality({i \in 1..Len(n) : n[i] = Origin})

\* C4: a remote-only selection resolves to "git checkout -b <localName> <name>"
\* with localName the name without its origin/ prefix, never to a plain
\* checkout of the remote ref; origin/feature-x gives
\* "git checkout -b feature-x origin/feature-x"
C4_CreateTracking ==
  Resolved /\ RemoteOnly(branchInfo) =>
    /\ switchCommand =
         <<"git checkout -b ">> \o StripOrigin(branchInfo.name)
           \o <<" ">> \o branchInfo.name
    /\ switchCommand # <<"git checkout ">> \o branchInfo.name
    /\ pc = "rebase" /\ ~previewMode => cmds[Len(cmds)] = switchCommand
    /\ SwitchCommand(C3_RemoteEntry(<<Origin, "feature-x">>))
         = <<"git checkout -b ", "feature-x", " ", Origin, "feature-x">>

\* origin/master was selected and checked out as a new local branch master
C4_Witness ==
  /\ pc = "rebase"
  /\ ~previewMode
  /\ branchInfo = C3_RemoteEntry(<<Origin, "master">>)
  /\ head = <<"master">>
  /\ cmds[Len(cmds)] = <<"git checkout -b ", "master", " ", Origin, "master">>

\* C5 as stated: the local name of a create-tracking checkout holds no origin/
C5_Original ==
  Resolved /\ RemoteOnly(branchInfo) =>
    CountOrigin(CheckoutCreates(switchCommand)) = 0

\* C5, amended: the local name is the remote ref with exactly one leading
\* origin/ removed, so it holds no origin/ exactly when the ref holds none
\* after its leading one
C5_OneLeadingPrefixRemoved ==
  Resolved /\ RemoteOnly(branchInfo) =>
    LET localName == CheckoutCreates(switchCommand)
        name == branchInfo.name
    IN  /\ name[1] = Origin => <<Origin>> \o localName = name
        /\ name[1] # Origin => localName = name
        /\ CountOrigin(localName) = 0 <=> CountOrigin(Tail(name)) = 0

\* origin/origin/dev was selected: the new local branch is origin/dev
C5_Witness ==
  /\ pc = "rebase"
  /\ ~previewMode
  /\ branchInfo.name = <<Origin, Origin, "dev">>
  /\ RemoteOnly(branchInfo)
  /\ head = <<Origin, "dev">>

\* C6 as stated: a selection that is not remote-only resolves to a plain
\* checkout of its name with the origin/ prefix removed
C6_Original ==
  Resolved /\ ~RemoteOnly(branchInfo) =>
    switchCommand = <<"git checkout ">> \o StripOrigin(branchInfo.name)

\* C6, amended: a local selection resolves to a plain checkout of its name
\* unchanged, which is the name without prefix when it does not begin with
\* origin/; the prefix is removed only for an entry neither local nor remote
C6_PlainCheckout ==
  Resolved /\ ~RemoteOnly(branchInfo) =>
    /\ branchInfo.isLocal =>
         switchCommand = <<"git checkout ">> \o branchInfo.name
    /\ ~branchInfo.isLocal =>
         switchCommand = <<"git checkout ">> \o StripOrigin(branchInfo.name)
    /\ branchInfo.name[1] # Origin =>
         switchCommand = <<"git checkout ">> \o StripOrigin(branchInfo.name)
    /\ pc = "rebase" /\ ~previewMode =>
         cmds[Len(cmds)] = switchCommand /\ head = branchInfo.name

\* the local branch origin/dev was selected and checked out
C6_Witness ==
  /\ pc = "rebase"
  /\ ~previewMode
  /\ branchInfo = C3_LocalEntry(<<Origin, "dev">>)
  /\ head = <<Origin, "dev">>

ShowRefMain == <<"git show-ref --verify --quiet refs/heads/main">>

ShowRefMaster == <<"git show-ref --verify --quiet refs/heads/master">>

SymbolicRef == <<"git symbolic-ref refs/remotes/origin/HEAD">>

Ran(cmd) == \E i \in 1..Len(cmds) : cmds[i] = cmd

Pos(cmd) == CHOOSE i \in 1..Len(cmds) : cmds[i] = cmd

Wrote(msg) == \E i \in 1..Len(printed) : printed[i] = msg

\* rebaseBranch has looked for the base branch
DiscoveryRan == Ran(ShowRefMain)

HasMain == <<"main">> \in Range(localRefs)

HasMaster == <<"master">> \in Range(localRefs)

\* a rebase was run, or shown in the preview
RebaseIssued == \E i \in 1..Len(cmds) : cmds[i][1] = "git rebase "

RebaseShown == \E i \in 1..Len(printed) : printed[i][1] = "Rebase command: "

CouldNotDetermine == <<"Warning: Could not determine main branch. Skipping rebase.">>

AlreadyOn(base) == <<"Already on ">> \o base \o <<", skipping rebase.">>

\* the upstream target the steps give, in their order
C7_Target ==
  IF HasMain THEN <<"main">>
  ELSE IF HasMaster THEN <<"master">>
  ELSE originHead

\* C7: the target is main when a local main exists, else master when a local
\* master exists, else what origin/HEAD resolves to, else none (skip); each
\* lookup runs only after the one before it failed
C7_DiscoveryOrder ==
  DiscoveryRan =>
    /\ baseBranch = C7_Target
    /\ Ran(ShowRefMaster) <=> ~HasMain
    /\ Ran(SymbolicRef) <=> ~HasMain /\ ~HasMaster
    /\ Ran(ShowRefMaster) => Pos(ShowRefMain) < Pos(ShowRefMaster)
    /\ Ran(SymbolicRef) => Pos(ShowRefMaster) < Pos(SymbolicRef)
    /\ baseBranch = None => Wrote(CouldNotDetermine) /\ ~RebaseIssued /\ ~RebaseShown

\* local main and master both exist and origin/HEAD names dev: the target is main
C7_Witness ==
  /\ pc = "finish"
  /\ HasMain /\ HasMaster
  /\ originHead = <<"dev">>
  /\ baseBranch = <<"main">>
  /\ head # <<"main">>

\* C8: when the checked-out branch is the discovered target, no rebase is run
\* and the outcome is "already on target", whichever step found the target
C8_AlreadyOnTarget ==
  DiscoveryRan /\ baseBranch # None /\ head = baseBranch =>
    /\ ~RebaseIssued
    /\ ~RebaseShown
    /\ Wrote(AlreadyOn(baseBranch))
    /\ ~Wrote(CouldNotDetermine)
    /\ rebased = None /\ ~rebasing

\* local master but no main, master checked out by the switch
C8_Witness ==
  /\ pc = "finish"
  /\ ~previewMode
  /\ HasMaster /\ ~HasMain
  /\ branchInfo.name = <<"master">>
  /\ head = <<"master">>
  /\ baseBranch = <<"master">>

\* C9: with no local main or master and no origin/HEAD, no rebase is run, the
\* outcome is "could not determine main branch" and the run ends with code 0
C9_Undeterminable ==
  DiscoveryRan /\ ~HasMain /\ ~HasMaster /\ originHead = None =>
    /\ Ran(SymbolicRef)
    /\ ~RebaseIssued
    /\ ~RebaseShown
    /\ Wrote(CouldNotDetermine)
    /\ \A i \in 1..Len(printed) : printed[i][1] # "Already on "
    /\ rebased = None /\ ~rebasing
    /\ pc \in {"finish", "done"}
    /\ pc = "done" =>
         /\ exitCode = 0
         /\ printed[Len(printed)] \in
              { <<"Branch switch completed successfully!">>, <<"End of preview">> }

\* a run that switched, could not determine the base branch and ended
C9_Witness ==
  /\ pc = "done"
  /\ ~previewMode
  /\ Ran(SymbolicRef)
  /\ originHead = None
  /\ Wrote(CouldNotDetermine)
  /\ exitCode = 0

\* C10: every rebase run is "git rebase origin/<target>", onto the remote
\* tracking ref of the discovered target and not onto the local target branch
C10_RebaseOntoRemote ==
  /\ \A i \in 1..Len(cmds) :
       cmds[i][1] = "git rebase " =>
         /\ C7_Target # None
         /\ cmds[i] = <<"git rebase ", Origin>> \o C7_Target
         /\ RebaseUpstream(cmds[i]) # C7_Target
  /\ rebased # None => rebased = <<Origin>> \o C7_Target

\* dev was rebased onto origin/master, the local master being the target
C10_Witness ==
  /\ pc = "finish"
  /\ head = <<"dev">>
  /\ HasMaster
  /\ Ran(<<"git rebase ", Origin, "master">>)
  /\ rebased = <<Origin, "master">>

RevParseHead == <<"git rev-parse --abbrev-ref HEAD">>

CheckoutWords == {"git checkout ", "git checkout -b "}

CheckoutIssued == \E i \in 1..Len(cmds) : cmds[i][1] \in CheckoutWords

\* C11: with --no-rebase no command of the rebase step is run or shown after
\* the checkout: no lookup of the current or base branch and no git rebase
C11_NoRebase ==
  "--no-rebase" \in args =>
    /\ ~Ran(RevParseHead)
    /\ ~Ran(ShowRefMain) /\ ~Ran(ShowRefMaster) /\ ~Ran(SymbolicRef)
    /\ ~RebaseIssued
    /\ ~RebaseShown
    /\ currentBranch = None /\ baseBranch = None
    /\ rebased = None /\ ~rebasing
    /\ pc = "finish" => Wrote(<<"Skipping rebase (--no-rebase flag specified)">>)

\* a run with --no-rebase that checked a branch out and went past the rebase step
C11_Witness ==
  /\ pc = "finish"
  /\ "--no-rebase" \in args
  /\ "--preview" \notin args
  /\ CheckoutIssued
  /\ head = StripOrigin(branchInfo.name)

\* C12: with --preview no step changes the checked-out branch, the local
\* branches or their history, no checkout or rebase command is run, and the
\* checkout command resolved is written instead
C12_PreviewFrame ==
  [][ "--preview" \in args =>
        /\ UNCHANGED <<localRefs, head, rebased, rebasing>>
        /\ \A i \in 1..Len(cmds') :
             cmds'[i][1] \notin CheckoutWords \cup {"git rebase "}
        /\ switchCommand' # switchCommand =>
             printed' = Append(printed, <<"Switch command: ">> \o switchCommand')
    ]_vars

\* a preview run that wrote both commands and ended
C12_Witness ==
  /\ pc = "done"
  /\ "--preview" \in args
  /\ Wrote(<<"Switch command: ">> \o switchCommand)
  /\ RebaseShown
  /\ exitCode = 0

\* the repository as the resolved checkout leaves it when it is carried out
C13_HeadAfterSwitch ==
  IF CheckoutCreates(switchCommand) = None
  THEN CheckoutStartPoint(switchCommand)
  ELSE CheckoutCreates(switchCommand)

C13_RefsAfterSwitch ==
  IF CheckoutCreates(switchCommand) = None THEN Range(localRefs)
  ELSE Range(localRefs) \cup {CheckoutCreates(switchCommand)}

\* the base branch a run without --preview finds after that checkout
C13_TargetAfterSwitch ==
  IF <<"main">> \in C13_RefsAfterSwitch THEN <<"main">>
  ELSE IF <<"master">> \in C13_RefsAfterSwitch THEN <<"master">>
  ELSE originHead

\* C13: what a preview run writes is what a run without --preview executes:
\* the same checkout command, and the rebase command or skip decided for the
\* branch that is current after the switch
C13_PreviewFidelity ==
  "--preview" \in args /\ pc = "finish" /\ Ran(RevParseHead) /\ DiscoveryRan =>
    /\ Wrote(<<"Switch command: ">> \o SwitchCommand(branchInfo))
    /\ C13_TargetAfterSwitch = None => Wrote(CouldNotDetermine)
    /\ C13_TargetAfterSwitch # None /\ C13_HeadAfterSwitch = C13_TargetAfterSwitch =>
         Wrote(AlreadyOn(C13_TargetAfterSwitch)) /\ ~RebaseShown
    /\ C13_TargetAfterSwitch # None /\ C13_HeadAfterSwitch # C13_TargetAfterSwitch =>
         Wrote(<<"Rebase command: ", "git rebase ", Origin>> \o C13_TargetAfterSwitch)

NotInRepository == <<"Error: Not in a Git repository.">>

ListingError == <<"Error fetching branches">>

NotFound == <<"Error: Selected branch not found">>

SwitchError == <<"Error switching to branch">>

FatalErrors == {NotInRepository, ListingError, NotFound, SwitchError}

\* C14: the process ends with code 1 exactly when it reported one of the
\* unrecoverable errors and with code 0 otherwise; --help ends with code 0
\* before any git command is run
C14_ExitCodes ==
  /\ pc # "done" => exitCode = -1
  /\ pc = "done" =>
       /\ exitCode \in {0, 1}
       /\ exitCode = 1 <=> printed[Len(printed)] \in FatalErrors
  /\ \A i \in 1..Len(printed) :
       printed[i] \in FatalErrors => i = Len(printed) /\ pc = "done" /\ exitCode = 1
  /\ "--help" \in args =>
       /\ cmds = <<>>
       /\ pc = "done" => exitCode = 0 /\ printed = << <<"Git Switch - help">> >>

\* a run ended by a failed checkout
C14_Witness ==
  /\ pc = "done"
  /\ exitCode = 1
  /\ printed[Len(printed)] = SwitchError
  /\ CheckoutIssued

InsideWorkTree == <<"git rev-parse --is-inside-work-tree">>

\* C15: outside a git repository the error is reported and the process ends
\* with a non-zero code at once: the repository check is the only command run,
\* nothing is listed, asked, checked out or rebased
C15_NotInRepository ==
  Wrote(NotInRepository) =>
    /\ pc = "done"
    /\ exitCode = 1
    /\ cmds = <<InsideWorkTree>>
    /\ printed = <<NotInRepository>>
    /\ branches = <<>> /\ choice = 0 /\ selectedBranch = None
    /\ switchCommand = None /\ currentBranch = None /\ baseBranch = None
    /\ rebased = None /\ ~rebasing

\* a run that ended at the repository check
C15_Witness ==
  /\ pc = "done"
  /\ Wrote(NotInRepository)
  /\ "--help" \notin args
  /\ exitCode = 1

FetchWarning ==
  <<"Warning: Could not fetch from remotes. Proceeding with local branches only.">>

\* C16: after a failed git fetch --all the run goes on, and the catalog it
\* offers holds local branches only, no remote-only entry
C16_LocalOnlyAfterFetchFailure ==
  Wrote(FetchWarning) =>
    /\ pc # "list" => Ran(<<"git branch">>)
    /\ \A k \in 1..Len(branches) : branches[k].isLocal /\ ~branches[k].isRemote

RemoteWarning == <<"Warning: Could not fetch remote branches">>

C17_LocalCatalog ==
  LET Offered(ref) == ref # head
      offered == SelectSeq(localRefs, Offered)
  IN  [i \in 1..Len(offered) |-> C3_LocalEntry(offered[i])]

\* C17: a failed local listing is fatal (error, code 1, no catalog, no prompt,
\* no checkout); a failed remote listing alone gives a warning and the catalog
\* of the non-current local branches in listing order
C17_ListingFailures ==
  /\ Wrote(ListingError) =>
       /\ pc = "done" /\ exitCode = 1
       /\ cmds[Len(cmds)] = <<"git branch">>
       /\ ~Wrote(RemoteWarning)
       /\ branches = <<>> /\ choice = 0 /\ switchCommand = None
  /\ Wrote(RemoteWarning) =>
       /\ ~Wrote(ListingError)
       /\ Ran(<<"git branch -r">>)
       /\ CatalogBuilt => branches = C17_LocalCatalog
       /\ \A k \in 1..Len(branches) : branches[k].isLocal
       /\ Len(branches) > 0 => pc # "done" \/ choice # 0

\* the remote listing failed in a repository with remote-tracking branches and
\* the local branches are offered
C17_Witness ==
  /\ pc = "prompt"
  /\ Wrote(RemoteWarning)
  /\ remoteRefs # <<>>
  /\ Len(branches) > 0

C19_Sequential ==
  /\ \A i \in 1..Len(cmds) :
       /\ cmds[i] = InsideWorkTree <=> i = 1
       /\ cmds[i] = <<"git fetch --all">> <=> i = 2
       /\ cmds[i] = <<"git branch">> <=> i = 3
       /\ cmds[i] = <<"git branch -r">> <=> i = 4
       /\ cmds[i][1] \in CheckoutWords =>
            i = 5 /\ choice # 0 /\ cmds[i] = switchCommand
       /\ cmds[i][1] = "git rebase " =>
            /\ i > 5
            /\ cmds[5][1] \in CheckoutWords
            /\ Wrote(<<"Successfully switched to branch ">> \o StripOrigin(branchInfo.name))
            /\ head = IF branchInfo.isLocal THEN branchInfo.name
                      ELSE StripOrigin(branchInfo.name)
  /\ choice # 0 => Ran(<<"git branch">>) /\ branches # <<>>
  /\ Wrote(SwitchError) =>
       /\ pc = "done" /\ exitCode = 1
       /\ cmds[Len(cmds)] = switchCommand
       /\ ~Ran(RevParseHead) /\ ~DiscoveryRan /\ ~RebaseIssued
       /\ rebased = None /\ ~rebasing

\* a run through every step: fetch, listings, selection, checkout, rebase
C19_Witness ==
  /\ pc = "finish"
  /\ Len(cmds) > 5
  /\ cmds[5] = switchCommand
  /\ cmds[Len(cmds)][1] = "git rebase "
  /\ rebased # None

\* the branch values that agree with the selected entry on name, isLocal and
\* isRemote, whatever their display text and current flag
C20_SameBranchValue ==
  [name : {branchInfo.name},
   displayName : {branchInfo.name,
                  branchInfo.name \o <<" (current)">>,
                  StripOrigin(branchInfo.name) \o <<" (remote)">>,
                  None},
   isLocal : {branchInfo.isLocal},
   isRemote : {branchInfo.isRemote},
   isCurrent : BOOLEAN]

\* C20: the checkout command is a function of the entry's name, isLocal and
\* isRemote alone: every branch value with these three fields resolves to
\* the command that the run resolved, printed or executed, in every
\* repository state
C20_ResolveDeterministic ==
  switchCommand # None =>
    /\ branchInfo \in C20_SameBranchValue
    /\ \A b \in C20_SameBranchValue :
         /\ SwitchCommand(b) = switchCommand
         /\ \A i \in 1..Len(cmds) :
              cmds[i][1] \in CheckoutWords => cmds[i] = SwitchCommand(b)

\* a remote-only entry, whose display text differs from its name, resolved
C20_Witness ==
  /\ switchCommand # None
  /\ branchInfo.isRemote /\ ~branchInfo.isLocal
  /\ branchInfo.displayName # branchInfo.name
  /\ switchCommand[1] = "git checkout -b "

\* an argument that is not one of git who's flags: an author_name
C21_AuthorGiven ==
  \E i \in 1..Len(args) : args[i] \notin {"--help", "--t", "--T"}

\* C21: without an author_name and without --t the logs are fetched for the
\* current user, whatever other flags are given; another author is used only
\* when one was given or chosen with --t
C21_DefaultAuthor ==
  \A i \in 1..Len(cmds) :
    cmds[i][1] = "git log --author=" =>
      /\ ~C21_AuthorGiven /\ ~isInteractive => cmds[i][2] = userName
      /\ cmds[i][2] # userName => C21_AuthorGiven \/ isInteractive

\* the prompts of createInteractiveTag have been answered
C22_Answered == answers.version # None

\* the repository's tags as the run found them
C22_TagsBefore == IF latestTag = None THEN <<>> ELSE <<latestTag>>

\* C22: git tag -a and git push --tags run only after the user has answered
\* yes to the confirmation; when the user declines, no tag is created,
\* nothing is pushed and the run ends with "Tag creation cancelled."
C22_ConfirmFirst ==
  /\ \A i \in 1..Len(cmds) :
       cmds[i][1] = "git tag -a " \/ cmds[i] = <<"git push --tags">> =>
         C22_Answered /\ answers.confirm
  /\ Len(repoTags) > 1 \/ remoteTags # {} => C22_Answered /\ answers.confirm
  /\ C22_Answered /\ ~answers.confirm =>
       /\ repoTags = C22_TagsBefore
       /\ remoteTags = {}
       /\ pc = "done" =>
            /\ printed[Len(printed)] = <<"Tag creation cancelled.">>
            /\ exitCode = 0

\* a run in which the user confirmed: the tag exists and was pushed
C22_Witness ==
  /\ pc = "done"
  /\ answers.confirm
  /\ repoTags = C22_TagsBefore \o <<TagOf(answers.version)>>
  /\ TagOf(answers.version) \in remoteTags

\* the latest tag without its leading v
C23_Bare == IF latestTag # <<>> /\ latestTag[1] = "v" THEN Tail(latestTag) ELSE latestTag

\* the latest tag has the form vX.Y.Z or X.Y.Z
C23_ThreeNumbers ==
  /\ latestTag # None
  /\ Len(Split(C23_Bare, ".")) = 3
  /\ \A i \in 1..3 :
       Split(C23_Bare, ".")[i] # <<>> /\ AllDigits(Split(C23_Bare, ".")[i])

\* C23: for a latest tag vX.Y.Z or X.Y.Z the suggested version is X.Y.(Z+1),
\* X and Y the same numbers; without any tag it is 1.0.0
C23_PatchIncrement ==
  suggestedVersion # None =>
    /\ latestTag = None => suggestedVersion = <<"1", ".", "0", ".", "0">>
    /\ C23_ThreeNumbers =>
         LET old == Split(C23_Bare, ".")
             new == Split(suggestedVersion, ".")
         IN  /\ Len(new) = 3
             /\ \A i \in 1..3 : new[i] # <<>> /\ AllDigits(new[i])
             /\ DecimalValue(new[1]) = DecimalValue(old[1])
             /\ DecimalValue(new[2]) = DecimalValue(old[2])
             /\ DecimalValue(new[3]) = DecimalValue(old[3]) + 1

\* v9.0.9 gives 9.0.10
C23_Witness ==
  /\ latestTag = <<"v", "9", ".", "0", ".", "9">>
  /\ suggestedVersion = <<"9", ".", "0", ".", "1", "0">>

\* C29: the version offered as the prompt's default passes validateVersion,
\* whatever the latest tag is
C29_SuggestionValid ==
  suggestedVersion # None => validateVersion(suggestedVersion)

\* the commands of git pr that change something
C24_StateChanging(cmd) ==
  cmd[1] \in {"git checkout -b ", "gh pr create --title "}

\* C24: in a --preview run of git pr every state-changing command was
\* printed and confirmed before it ran, and after a refusal nothing has been
\* created
C24_PreviewBeforeExecution ==
  "--preview" \in args =>
    /\ \A i \in 1..Len(cmds) :
         C24_StateChanging(cmds[i]) => Wrote(cmds[i]) /\ confirm
    /\ Wrote(<<"PR creation cancelled.">>) =>
         \A i \in 1..Len(cmds) : ~C24_StateChanging(cmds[i])

\* gh pr create has been run
C25_PrCreated == \E i \in 1..Len(cmds) : cmds[i][1] = "gh pr create --title "

\* C25 as stated: whenever createPR is entered with base and head the same,
\* it reports the error and exits with code 1 without running gh pr create
C25_Original ==
  [][pc = "prCreate" /\ prData.baseBranch = prData.headBranch =>
       /\ Wrote(<<"Cannot create PR: base and head branches are the same">>)'
       /\ exitCode' = 1
       /\ ~C25_PrCreated']_vars

\* C25: gh pr create is never run with the same base and head; createPR
\* entered with base and head the same ends the run without gh pr create,
\* and with the error and exit code 1 unless the current branch is main or
\* master, where the feature branch step comes first
C25_SameBranchRefused ==
  [][/\ \A i \in 1..Len(cmds') :
          cmds'[i][1] = "gh pr create --title " =>
            /\ cmds'[i] = PrCommand(prData')
            /\ prData'.baseBranch # prData'.headBranch
     /\ pc = "prCreate" /\ prData.baseBranch = prData.headBranch =>
          /\ pc' = "done"
          /\ ~C25_PrCreated'
          /\ ToLowerCase(currentBranch') \notin {<<"main">>, <<"master">>} =>
               /\ Wrote(<<"Cannot create PR: base and head branches are the same">>)'
               /\ exitCode' = 1]_vars

\* base and head the same on a branch that is not the main branch: refused
C25_Witness ==
  /\ pc = "done"
  /\ exitCode = 1
  /\ prData.title # None
  /\ prData.baseBranch = prData.headBranch
  /\ currentBranch = <<"dev">>
  /\ Wrote(<<"Cannot create PR: base and head branches are the same">>)

\* createPR has read the current branch
C26_CreatePRRan == Len(cmds) > Len(PrChecks) + Len(PrDetailCommands)

\* the feature branch of the run's title
C26_Feature == BranchName(prData.title)

\* C26: on main or master (in any case of letters) createPR creates and
\* checks out the feature branch of the title and ends the run without gh pr
\* create, unless git itself refuses a name it could accept; on any other
\* branch no feature branch is created
C26_FeatureBranchOnMain ==
  C26_CreatePRRan =>
    IF ToLowerCase(currentBranch) \in {<<"main">>, <<"master">>}
    THEN /\ pc = "done"
         /\ ~C25_PrCreated
         /\ cmds[Len(cmds)] = <<"git checkout -b ">> \o C26_Feature
         /\ \/ /\ exitCode = 0
               /\ head = C26_Feature
               /\ C26_Feature \in Range(localRefs)
            \/ /\ exitCode = 1
               /\ FeatureBranchValid(C26_Feature, localRefs)
    ELSE /\ \A i \in 1..Len(cmds) : cmds[i][1] # "git checkout -b "
         /\ \A i \in 1..Len(localRefs) : localRefs[i][1] # "feature/"

\* C27: every catalog entry is either local or remote, never both and never
\* neither, and a remote entry is not the current branch; so the entry that
\* switchToBranch resolves is remote-only or local, never the third case
C27_LocalXorRemote ==
  /\ CatalogBuilt =>
       \A i \in 1..Len(branches) :
         /\ branches[i].isLocal # branches[i].isRemote
         /\ branches[i].isRemote => ~branches[i].isCurrent
         /\ RemoteOnly(branches[i]) \/ branches[i].isLocal
  /\ Resolved =>
       /\ branchInfo.isLocal # branchInfo.isRemote
       /\ RemoteOnly(branchInfo) \/ branchInfo.isLocal
       /\ switchCommand \in
            {<<"git checkout ">> \o branchInfo.name,
             <<"git checkout -b ">> \o StripOrigin(branchInfo.name)
               \o <<" ">> \o branchInfo.name}

\* a catalog with a local and a remote entry, one of them resolved
C27_Witness ==
  /\ Resolved
  /\ \E i \in 1..Len(branches) : branches[i].isLocal
  /\ \E i \in 1..Len(branches) : branches[i].isRemote
  /\ Len(remoteRefs) > 1

\* C28: the names of the catalog entries are pairwise distinct, so the entry
\* main finds for the selected value is the entry the user chose
C28_DistinctNames ==
  CatalogBuilt =>
    /\ \A i, j \in 1..Len(branches) :
         branches[i].name = branches[j].name => i = j
    /\ choice # 0 /\ branchInfo # Null => branchInfo = branches[choice]

\* C30: getLogs reads every line of the log without a runtime panic
C30_NoPanic == ~panicked

=============================================================================
